---- MODULE Spec2Model ----
(***************************************************************************)
(* Model of the useAsyncFlow hook of react-async-orchestrator              *)
(* (src/src/useAsyncFlow.ts, lines 94-196): the React state cells status,  *)
(* result and error, the refs abortControllerRef and isMountedRef, and one *)
(* AbortController, one task promise and one executeRun activation per     *)
(* run.  A step is one synchronous stretch of JavaScript: a handler call   *)
(* up to its first await, or the continuation of an await.                 *)
(***************************************************************************)
EXTENDS Integers, Sequences, FiniteSets, TLC

\* Largest number of executeRun activations in one behaviour.
MaxRuns == 3

\* Longest task list handed to a combinator, and largest `retries`.
MaxTasks == 3

\* React's null (useState(null), useRef(null)) and the undefined a bare
\* `return;` of an async function resolves to.
NULL == "null"
UNDEFINED == "undefined"

\* Values a task may fulfil with, values it may reject with.  "aborted"
\* stands for an Error whose message is that of the combinators'
\* cancellation error (new Error("aborted"), lines 60, 68, 80).
Values == {"v1", "v2"}
Errors == {"boom", "aborted"}

Runs == 1..MaxRuns

\* How the task function of a run ends: fulfilled with a value, rejected
\* (or thrown) with an error.
Outcomes == [kind : {"ok"}, val : Values] \cup [kind : {"err"}, val : Errors]
NoOutcome == [kind |-> "none", val |-> NULL]

VARIABLES
  auto,                \* opts.auto
  lifecycle,           \* host component: "rendered", "mounted", "unmounted"
  status, result, error,      \* the three useState cells
  abortControllerRef,  \* 0 = null, r = the controller of run r
  isMountedRef,        \* isMountedRef.current
  nRuns,               \* executeRun activations so far
  aborted,             \* aborted[r]: signal.aborted of run r's controller
  task,                \* task[r]: "none", "pending", "settled"
  outcome,             \* outcome[r]: how run r's task ended
  klass,               \* klass[r]: the setStatus executeRun made for run r
  returned,            \* returned[r]: what run r's run() promise resolved to
  onErrorCalls,        \* onErrorCalls[r]: arguments of onError, run r
  onFinallyLog,        \* onFinallyLog[r]: status set when onFinally was called
  invoked,             \* invoked[r]: the cells when run(context) was called
  runsAtSettle,        \* runsAtSettle[r]: nRuns when run r's task ended
  cancelHit,           \* cancelHit[r]: cancel() was called with run r in flight
  intervened           \* a cancel(), deps change or unmount has happened

\* One call of a helper of makeSpawn(signal) (lines 56-92).
VARIABLES
  comb,                \* the helper called: "none" before the call
  signal,              \* signal.aborted
  nTasks,              \* tasks.length; `retries` for retry; 1 for timeout
  tstate,              \* tstate[i]: "idle", "running", "ok", "err"
  tval,                \* tval[i]: what task i settled with
  startOrder,          \* the tasks in the order their functions were called
  settleOrder,         \* the tasks in the order they settled
  results,             \* `results` of sequence
  attempt,             \* `attempt` of retry
  lastError,           \* `lastError` of retry
  timer,               \* the setTimeout of delay / pTimeout
  promise,             \* state of the promise the helper returned
  promiseVal,          \* its value or reason
  calledAborted        \* signal.aborted when the helper was called

hookVars == <<auto, lifecycle, status, result, error, abortControllerRef,
              isMountedRef, nRuns, aborted, task, outcome, klass, returned,
              onErrorCalls, onFinallyLog, invoked, runsAtSettle, cancelHit,
              intervened>>

spawnVars == <<comb, signal, nTasks, tstate, tval, startOrder, settleOrder,
               results, attempt, lastError, timer, promise, promiseVal,
               calledAborted>>

vars == <<auto, lifecycle, status, result, error, abortControllerRef,
          isMountedRef, nRuns, aborted, task, outcome, klass, returned,
          onErrorCalls, onFinallyLog, invoked, runsAtSettle, cancelHit,
          intervened, spawnVars>>

\* Tasks of one helper call; retry may call fn once more than `retries`
\* only if its loop bound is wrong, so the model leaves room for that call.
TaskIds == 1..(MaxTasks + 1)

NoSnapshot == [status |-> "none", result |-> NULL, error |-> NULL,
               aborted |-> FALSE, prevFired |-> TRUE]

\* First render: the useState/useRef initial values (lines 106-112); no
\* effect has run yet.
Init ==
  /\ auto \in BOOLEAN
  /\ lifecycle = "rendered"
  /\ status = "idle"
  /\ result = NULL
  /\ error = NULL
  /\ abortControllerRef = 0
  /\ isMountedRef = TRUE
  /\ nRuns = 0
  /\ aborted = [r \in Runs |-> FALSE]
  /\ task = [r \in Runs |-> "none"]
  /\ outcome = [r \in Runs |-> NoOutcome]
  /\ klass = [r \in Runs |-> "none"]
  /\ returned = [r \in Runs |-> "pending"]
  /\ onErrorCalls = [r \in Runs |-> <<>>]
  /\ onFinallyLog = [r \in Runs |-> <<>>]
  /\ invoked = [r \in Runs |-> NoSnapshot]
  /\ runsAtSettle = [r \in Runs |-> 0]
  /\ cancelHit = [r \in Runs |-> FALSE]
  /\ intervened = FALSE
  /\ comb = "none"
  /\ signal = FALSE
  /\ nTasks = 0
  /\ tstate = [i \in TaskIds |-> "idle"]
  /\ tval = [i \in TaskIds |-> NULL]
  /\ startOrder = <<>>
  /\ settleOrder = <<>>
  /\ results = <<>>
  /\ attempt = 0
  /\ lastError = UNDEFINED
  /\ timer = "none"
  /\ promise = "none"
  /\ promiseVal = NULL
  /\ calledAborted = FALSE

----------------------------------------------------------------------------
\* Pieces of executeRun and cancel.

\* abortControllerRef.current?.abort()
AbortNone(ab, ref) == ab
Abort(ab, ref) == IF ref = 0 THEN ab ELSE [ab EXCEPT ![ref] = TRUE]

\* new AbortController(): the signal of a new controller is not aborted.
NewController(ab, r) == [ab EXCEPT ![r] = FALSE]

\* setResult(null) at the start of a run.
ResetResultKept(res) == res
ResetResult(res) == NULL

\* context.cancelled()
ContextCancelledSignalOnly(r, ab, mounted) == ab[r]
ContextCancelled(r, ab, mounted) == ab[r] \/ ~mounted

\* The branch executeRun takes when the task has ended with outcome o.
ClassifyByContent(r, o, ab, mounted) ==
  IF ContextCancelled(r, ab, mounted) \/ (o.kind = "err" /\ o.val = "aborted")
    THEN "cancelled"
    ELSE IF o.kind = "ok" THEN "success" ELSE "error"
Classify(r, o, ab, mounted) ==
  IF ContextCancelled(r, ab, mounted) THEN "cancelled"
  ELSE IF o.kind = "ok" THEN "success" ELSE "error"

\* setResult(resultValue) only on the success branch.
SettledResult(c, o, res) == IF c = "success" THEN o.val ELSE res

\* setError(err) only on the error branch.
SettledError(c, o, err) == IF c = "error" THEN o.val ELSE err

\* onError?.(err) only on the error branch.
OnErrorAlways(c, o) == IF o.kind = "err" THEN <<o.val>> ELSE <<>>
OnError(c, o) == IF c = "error" THEN <<o.val>> ELSE <<>>

\* finally { onFinally?.() }: runs on every branch, after the setStatus of
\* the branch; the log keeps the status that had been set by then.
OnFinallySkipCancelled(c) == IF c = "cancelled" THEN <<>> ELSE <<c>>
OnFinally(c) == <<c>>

\* The value of the async function: resultValue on the success branch, a
\* bare return on the others.
ReturnValueAlways(c, o) == IF o.kind = "ok" THEN o.val ELSE UNDEFINED
ReturnValue(c, o) == IF c = "success" THEN o.val ELSE UNDEFINED

\* if (abortControllerRef.current === abortController) ... = null
ReleaseRefAlways(r, ref) == 0
ReleaseRef(r, ref) == IF ref = r THEN 0 ELSE ref

\* The continuation of `await Promise.resolve(run(context))` for run r whose
\* task ended with outcome o, given the cells as they are at that moment.
Complete(r, o, ab, ref, res, err, n) ==
  LET c == Classify(r, o, ab, isMountedRef) IN
  /\ status' = c
  /\ result' = SettledResult(c, o, res)
  /\ error' = SettledError(c, o, err)
  /\ abortControllerRef' = ReleaseRef(r, ref)
  /\ task' = [task EXCEPT ![r] = "settled"]
  /\ outcome' = [outcome EXCEPT ![r] = o]
  /\ klass' = [klass EXCEPT ![r] = c]
  /\ returned' = [returned EXCEPT ![r] = ReturnValue(c, o)]
  /\ onErrorCalls' = [onErrorCalls EXCEPT ![r] = @ \o OnError(c, o)]
  /\ onFinallyLog' = [onFinallyLog EXCEPT ![r] = @ \o OnFinally(c)]
  /\ runsAtSettle' = [runsAtSettle EXCEPT ![r] = n]

\* executeRun up to its first await, called with the controllers' flags ab.
\* The task function is called synchronously; it either returns (a promise
\* or a plain value, awaited either way) or throws, and a throw reaches the
\* catch block in the same synchronous stretch.
ExecuteRun(ab) ==
  /\ nRuns < MaxRuns
  /\ LET r == nRuns + 1
         ab2 == NewController(Abort(ab, abortControllerRef), r)
         res2 == ResetResult(result)
     IN
     /\ nRuns' = r
     /\ aborted' = ab2
     /\ invoked' = [invoked EXCEPT ![r] =
                      [status |-> "running", result |-> res2, error |-> NULL,
                       aborted |-> ab2[r],
                       prevFired |-> (abortControllerRef = 0
                                        \/ ab2[abortControllerRef])]]
     /\ \/ /\ task' = [task EXCEPT ![r] = "pending"]
           /\ status' = "running"
           /\ error' = NULL
           /\ result' = res2
           /\ abortControllerRef' = r
           /\ UNCHANGED <<outcome, klass, returned, onErrorCalls,
                          onFinallyLog, runsAtSettle>>
        \/ \E e \in Errors :
             Complete(r, [kind |-> "err", val |-> e], ab2, r, res2, NULL, r)

\* The effects of the first commit: isMountedRef.current = true, then
\* `if (auto) executeRun()`.
MountEffects ==
  /\ lifecycle = "rendered"
  /\ lifecycle' = "mounted"
  /\ isMountedRef' = TRUE
  /\ IF auto
       THEN ExecuteRun(aborted)
       ELSE UNCHANGED <<status, result, error, abortControllerRef, nRuns,
                        aborted, task, outcome, klass, returned, onErrorCalls,
                        onFinallyLog, invoked, runsAtSettle>>
  /\ UNCHANGED <<auto, cancelHit, intervened, spawnVars>>

\* handle.run()
Run ==
  /\ lifecycle # "rendered"
  /\ ExecuteRun(aborted)
  /\ UNCHANGED <<auto, lifecycle, isMountedRef, cancelHit, intervened,
                 spawnVars>>

\* handle.cancel()
Cancel ==
  /\ lifecycle # "rendered"
  /\ aborted' = Abort(aborted, abortControllerRef)
  /\ abortControllerRef' = 0
  /\ status' = "cancelled"
  /\ cancelHit' = [r \in Runs |->
                     cancelHit[r] \/ (r = abortControllerRef /\ task[r] = "pending")]
  /\ intervened' = TRUE
  /\ UNCHANGED <<auto, lifecycle, result, error, isMountedRef, nRuns, task,
                 outcome, klass, returned, onErrorCalls, onFinallyLog, invoked,
                 runsAtSettle, spawnVars>>

\* A change of deps: the cleanup of the auto-run effect aborts the current
\* controller (the ref keeps it), then the effect runs again.
DepsChange ==
  /\ lifecycle = "mounted"
  /\ intervened' = TRUE
  /\ IF auto
       THEN ExecuteRun(Abort(aborted, abortControllerRef))
       ELSE /\ aborted' = Abort(aborted, abortControllerRef)
            /\ UNCHANGED <<status, result, error, abortControllerRef, nRuns,
                           task, outcome, klass, returned, onErrorCalls,
                           onFinallyLog, invoked, runsAtSettle>>
  /\ UNCHANGED <<auto, lifecycle, isMountedRef, cancelHit, spawnVars>>

\* Unmount: the cleanups of both effects.
Unmount ==
  /\ lifecycle = "mounted"
  /\ lifecycle' = "unmounted"
  /\ isMountedRef' = FALSE
  /\ aborted' = Abort(aborted, abortControllerRef)
  /\ abortControllerRef' = 0
  /\ intervened' = TRUE
  /\ UNCHANGED <<auto, status, result, error, nRuns, task, outcome, klass,
                 returned, onErrorCalls, onFinallyLog, invoked, runsAtSettle,
                 cancelHit, spawnVars>>

\* The task of run r fulfils or rejects and executeRun resumes.
Settle(r) ==
  /\ task[r] = "pending"
  /\ \E o \in Outcomes :
       Complete(r, o, aborted, abortControllerRef, result, error, nRuns)
  /\ UNCHANGED <<auto, lifecycle, isMountedRef, nRuns, aborted, invoked,
                 cancelHit, intervened, spawnVars>>

Next ==
  \/ MountEffects
  \/ Run
  \/ Cancel
  \/ DepsChange
  \/ Unmount
  \/ \E r \in Runs : Settle(r)

Spec == Init /\ [][Next]_vars

----------------------------------------------------------------------------
TypeOK ==
  /\ auto \in BOOLEAN
  /\ lifecycle \in {"rendered", "mounted", "unmounted"}
  /\ status \in {"idle", "running", "success", "error", "cancelled"}
  /\ result \in Values \cup {NULL}
  /\ error \in Errors \cup {NULL}
  /\ abortControllerRef \in 0..MaxRuns
  /\ nRuns \in 0..MaxRuns
  /\ \A r \in Runs : task[r] \in {"none", "pending", "settled"}

----------------------------------------------------------------------------
\* Steps and sets the properties below speak of.

\* The task of run r ends in this step (asynchronously, or by a throw inside
\* the executeRun call that started it).
TaskEnds(r) == task[r] # "settled" /\ task'[r] = "settled"

\* The pending task of run r settles in this step.
LateSettle(r) == task[r] = "pending" /\ task'[r] = "settled"

\* This step is an executeRun call.
Starts == nRuns' = nRuns + 1

Terminal == {"success", "error", "cancelled"}

----------------------------------------------------------------------------
\* C1: when a later run has been started while the task of run r was still
\* unsettled, the settlement of r's task, with a value or with an error,
\* leaves result and error as they are and does not call onError.
C1_SupersededSettlementKeepsResult ==
  [][\A r \in Runs :
       (LateSettle(r) /\ nRuns > r)
         => /\ result' = result
            /\ error' = error
            /\ onErrorCalls' = onErrorCalls]_vars

\* A superseded run whose task rejected after the run that superseded it
\* had already recorded its result.
C1_Witness ==
  \E a \in Runs :
    /\ task[a] = "settled"
    /\ runsAtSettle[a] > a
    /\ outcome[a].kind = "err"
    /\ result # NULL

\* C2 (as claimed): cancel() with a run in flight sets status to cancelled
\* in that step, and the later settlement of that run's task changes none
\* of status, result and error, whatever has happened in between.
C2_CancelledSettlementIsNoOp ==
  [][/\ (cancelHit' # cancelHit) => status' = "cancelled"
     /\ \A r \in Runs :
          (LateSettle(r) /\ cancelHit[r])
            => /\ status' = status
               /\ result' = result
               /\ error' = error]_vars

\* C3 (as claimed): run 1 starts, run 2 starts before run 1's task settles,
\* nothing else is called; once both tasks have settled, run 1 was
\* classified cancelled and the handle shows run 2's own outcome.
C3_SupersedingRunOwnsHandle ==
  (/\ nRuns = 2
   /\ ~intervened
   /\ task[1] = "settled"
   /\ task[2] = "settled"
   /\ runsAtSettle[1] = 2)
    => /\ klass[1] = "cancelled"
       /\ outcome[2].kind = "ok"
            => status = "success" /\ result = outcome[2].val /\ error = NULL
       /\ outcome[2].kind = "err"
            => status = "error" /\ error = outcome[2].val /\ result = NULL

\* C4: when the task of run r ends while the component is mounted, the
\* branch taken depends only on r's signal and on fulfilment or rejection:
\* signal aborted -> cancelled, nothing recorded, no onError; not aborted
\* and rejected -> error with the thrown value recorded as it is, whatever
\* its content; not aborted and fulfilled -> success with the value.
C4_ClassifiedByTokenOnly ==
  [][\A r \in Runs :
       (TaskEnds(r) /\ isMountedRef')
         => LET o == outcome'[r] IN
            /\ aborted'[r]
                 => /\ status' = "cancelled"
                    /\ klass'[r] = "cancelled"
                    /\ result' = result
                    /\ error' = error
                    /\ onErrorCalls' = onErrorCalls
            /\ (~aborted'[r] /\ o.kind = "err")
                 => /\ status' = "error"
                    /\ klass'[r] = "error"
                    /\ error' = o.val
            /\ (~aborted'[r] /\ o.kind = "ok")
                 => /\ status' = "success"
                    /\ klass'[r] = "success"
                    /\ result' = o.val]_vars

\* A run whose signal was not aborted and whose task rejected with an error
\* that reads like the combinators' cancellation error.
C4_Witness ==
  \E r \in Runs :
    /\ task[r] = "settled"
    /\ isMountedRef
    /\ ~aborted[r]
    /\ outcome[r] = [kind |-> "err", val |-> "aborted"]
    /\ klass[r] = "error"
    /\ error = "aborted"

\* C5 (as claimed): result is present only when status is success and
\* error is present only when status is error.
C5_PayloadMatchesStatus ==
  /\ result # NULL => status = "success"
  /\ error # NULL => status = "error"

\* C6: for every run whose task has ended, onFinally has been called exactly
\* once, when the status of the run's branch had been set; it has not been
\* called for a run whose task has not ended.
C6_FinallyOncePerRun ==
  \A r \in Runs :
    /\ task[r] = "settled"
         => /\ klass[r] \in Terminal
            /\ onFinallyLog[r] = <<klass[r]>>
    /\ task[r] # "settled" => onFinallyLog[r] = <<>>

\* Three settled runs, one on each branch, the cancelled one by cancel().
C6_Witness ==
  \E a, b, c \in Runs :
    /\ klass[a] = "cancelled" /\ cancelHit[a]
    /\ klass[b] = "success"
    /\ klass[c] = "error"

\* C7: onError is called for a run only in the step that classifies it as
\* error, with the error recorded in that step; a run classified cancelled
\* has had no onError call, also when its task rejected.
C7_OnErrorOnlyForError ==
  [][\A r \in Runs :
       /\ onErrorCalls'[r] # onErrorCalls[r]
            => /\ klass'[r] = "error"
               /\ status' = "error"
               /\ ~aborted'[r]
               /\ onErrorCalls'[r] = <<error'>>
       /\ klass'[r] = "cancelled" => onErrorCalls'[r] = <<>>]_vars

\* A run classified cancelled although its task rejected, next to a run
\* classified error for which onError was called.
C7_Witness ==
  \E a, b \in Runs :
    /\ klass[a] = "cancelled"
    /\ outcome[a].kind = "err"
    /\ onErrorCalls[a] = <<>>
    /\ klass[b] = "error"
    /\ onErrorCalls[b] = <<outcome[b].val>>

\* C8: the promise of run() resolves to the task's value exactly when the
\* run is classified success, and to undefined when it is classified
\* cancelled or error; it is unresolved until the task has ended.
C8_RunPromiseValue ==
  \A r \in Runs :
    /\ klass[r] = "success" => returned[r] = outcome[r].val
    /\ klass[r] \in {"cancelled", "error"} => returned[r] = UNDEFINED
    /\ returned[r] \in Values => klass[r] = "success"
    /\ task[r] # "settled" => returned[r] = "pending"

\* A run whose task fulfilled but which resolved to undefined because it was
\* cancelled, next to a run that resolved to its value.
C8_Witness ==
  \E a, b \in Runs :
    /\ klass[a] = "cancelled"
    /\ outcome[a].kind = "ok"
    /\ returned[a] = UNDEFINED
    /\ klass[b] = "success"
    /\ returned[b] \in Values

\* C9: every executeRun call, whatever the status it is made in, aborts the
\* controller the ref holds, gives the run a controller that is not
\* aborted, and has set status running and cleared result and error when it
\* calls the task function; when the task function returns, that is the
\* state the call leaves, with the ref holding the new controller.
C9_StartResets ==
  [][Starts
       => LET r == nRuns' IN
          /\ abortControllerRef # 0 => aborted'[abortControllerRef]
          /\ invoked'[r] = [status |-> "running", result |-> NULL,
                            error |-> NULL, aborted |-> FALSE,
                            prevFired |-> TRUE]
          /\ task'[r] = "pending"
               => /\ status' = "running"
                  /\ result' = NULL
                  /\ error' = NULL
                  /\ abortControllerRef' = r
                  /\ ~aborted'[r]]_vars

\* A run started when status was success with a result recorded, and a run
\* started while its predecessor was in flight.
C9_Witness ==
  \E a, b \in Runs :
    /\ a + 1 \in Runs
    /\ klass[a] = "success"
    /\ runsAtSettle[a] = a
    /\ ~intervened
    /\ invoked[a + 1].status = "running"
    /\ b + 1 \in Runs
    /\ invoked[b + 1].status = "running"
    /\ runsAtSettle[b] > b
    /\ aborted[b]

\* C10 (as claimed): no settlement of a task changes a status that is
\* success, error or cancelled.
C10_TerminalStatusStable ==
  [][\A r \in Runs :
       (LateSettle(r) /\ status \in Terminal) => status' = status]_vars

\* C11: at most one run has an unsettled task and a signal that is not
\* aborted; it is the run started last, and the ref holds its controller.
\* The settlement of a run whose controller the ref does not hold leaves
\* the ref as it is, and after cancel() no unsettled run has a signal that
\* is not aborted.
C11_OneLiveRun ==
  [][/\ \A r \in Runs :
          (task'[r] = "pending" /\ ~aborted'[r])
            => (r = nRuns' /\ abortControllerRef' = r)
     /\ \A r \in Runs :
          (LateSettle(r) /\ abortControllerRef # r)
            => abortControllerRef' = abortControllerRef
     /\ (/\ status' = "cancelled"
         /\ abortControllerRef' = 0
         /\ task' = task
         /\ lifecycle' = lifecycle
         /\ nRuns' = nRuns)
          => \A r \in Runs : task[r] = "pending" => aborted'[r]]_vars

\* An older run has settled while the latest run was in flight, and the ref
\* still holds the latest run's controller.
C11_Witness ==
  \E a \in Runs :
    /\ a < nRuns
    /\ task[a] = "settled"
    /\ runsAtSettle[a] = nRuns
    /\ task[nRuns] = "pending"
    /\ ~aborted[nRuns]
    /\ abortControllerRef = nRuns

\* C20: unmount aborts the controller the ref holds and leaves status,
\* result and error as they are; a task that ends after unmount takes the
\* cancelled branch: no result and no error is recorded and onError is not
\* called.
C20_TeardownKeepsState ==
  [][/\ (lifecycle = "mounted" /\ lifecycle' = "unmounted")
          => /\ abortControllerRef # 0 => aborted'[abortControllerRef]
             /\ status' = status
             /\ result' = result
             /\ error' = error
     /\ \A r \in Runs :
          (TaskEnds(r) /\ lifecycle = "unmounted")
            => /\ klass'[r] = "cancelled"
               /\ onErrorCalls' = onErrorCalls
               /\ LateSettle(r) => (result' = result /\ error' = error)
               /\ ~LateSettle(r) => (result' = NULL /\ error' = NULL)]_vars

\* After unmount, a run whose signal was never aborted had its task fulfil
\* and was classified cancelled, and a run in flight at unmount had its
\* task reject.
C20_Witness ==
  /\ lifecycle = "unmounted"
  /\ \E a, b \in Runs :
       /\ klass[a] = "cancelled"
       /\ ~aborted[a]
       /\ outcome[a].kind = "ok"
       /\ klass[b] = "cancelled"
       /\ aborted[b]
       /\ outcome[b].kind = "err"
       /\ ~cancelHit[b]
       /\ runsAtSettle[b] = b

----------------------------------------------------------------------------
(***************************************************************************)
(* The helpers of makeSpawn(signal) (lines 56-92) and pTimeout (lines      *)
(* 43-53).  One behaviour of SpawnSpec is one call of one helper: the call *)
(* runs up to its first await, every task it has started settles in a     *)
(* step of its own, a timer fires in a step of its own, and the signal may *)
(* be aborted between any two steps.                                       *)
(***************************************************************************)

\* new Error("aborted"), new Error("timeout")
CancelError == "aborted"
TimeoutError == "timeout"

\* parallel: signal.aborted ? Promise.reject(new Error("aborted")) : task()
ParallelSlotUnchecked(sig) == "start"
ParallelSlot(sig) == IF sig THEN "reject" ELSE "start"

\* Promise.all: the values by position in the input, whatever the order
\* `order` in which the promises fulfilled.
PromiseAllByCompletion(n, vals, order) == [k \in 1..n |-> vals[order[k]]]
PromiseAll(n, vals, order) == [k \in 1..n |-> vals[k]]

\* sequence: the head of the for loop with `done` tasks behind it.
SequenceStepUnchecked(done, n, sig) == IF done >= n THEN "return" ELSE "start"
SequenceStep(done, n, sig) ==
  IF done >= n THEN "return" ELSE IF sig THEN "throw" ELSE "start"

\* sequence: results.push(await task())
ResultsUnshift(res, v) == <<v>> \o res
ResultsPush(res, v) == Append(res, v)

\* race: tasks.map((task) => task())
RaceSlotChecked(sig) == IF sig THEN "reject" ELSE "start"
RaceSlot(sig) == "start"

\* retry: the head of the for loop, `attempt < retries`, then the check of
\* the signal.
RetryStepOneMore(att, retries, sig) ==
  IF att > retries THEN "exhausted" ELSE IF sig THEN "throw" ELSE "start"
RetryStepUnchecked(att, retries, sig) ==
  IF att >= retries THEN "exhausted" ELSE "start"
RetryStep(att, retries, sig) ==
  IF att >= retries THEN "exhausted" ELSE IF sig THEN "throw" ELSE "start"

\* retry: lastError = error
RetryLastError(prev, e) == e

\* retry: if (attempt < retries - 1) await delay(delayMs)
NeedsDelay(att, retries) == att < retries - 1

\* pTimeout: finally { clearTimeout(timer) }
ClearTimeoutNoop(t) == t
ClearTimeout(t) == IF t = "armed" THEN "cleared" ELSE t

\* retry from the head of the loop, with `attempt` = att, lastError = le and
\* the tasks in states st.
RetryLoop(att, retries, le, st) ==
  LET step == RetryStep(att, retries, signal) IN
  /\ attempt' = att
  /\ IF step = "start"
       THEN /\ tstate' = [st EXCEPT ![att + 1] = "running"]
            /\ startOrder' = Append(startOrder, att + 1)
            /\ UNCHANGED <<promise, promiseVal>>
       ELSE /\ tstate' = st
            /\ startOrder' = startOrder
            /\ promise' = "rejected"
            /\ promiseVal' = IF step = "throw" THEN CancelError ELSE le

\* spawn.parallel(tasks) with tasks.length = n
CallParallel ==
  /\ comb = "none"
  /\ \E n \in 0..MaxTasks :
       /\ comb' = "parallel"
       /\ nTasks' = n
       /\ IF ParallelSlot(signal) = "start"
            THEN /\ tstate' = [i \in TaskIds |->
                                 IF i <= n THEN "running" ELSE "idle"]
                 /\ startOrder' = [i \in 1..n |-> i]
                 /\ promise' = IF n = 0 THEN "fulfilled" ELSE "pending"
                 /\ promiseVal' = IF n = 0 THEN <<>> ELSE NULL
            ELSE /\ UNCHANGED <<tstate, startOrder>>
                 /\ promise' = IF n = 0 THEN "fulfilled" ELSE "rejected"
                 /\ promiseVal' = IF n = 0 THEN <<>> ELSE CancelError
  /\ calledAborted' = signal
  /\ UNCHANGED <<signal, tval, settleOrder, results, attempt, lastError,
                 timer>>
  /\ UNCHANGED hookVars

\* spawn.sequence(tasks) with tasks.length = n
CallSequence ==
  /\ comb = "none"
  /\ \E n \in 0..MaxTasks :
       LET step == SequenceStep(0, n, signal) IN
       /\ comb' = "sequence"
       /\ nTasks' = n
       /\ IF step = "start"
            THEN /\ tstate' = [tstate EXCEPT ![1] = "running"]
                 /\ startOrder' = <<1>>
                 /\ promise' = "pending"
                 /\ promiseVal' = NULL
            ELSE /\ UNCHANGED <<tstate, startOrder>>
                 /\ promise' = IF step = "return" THEN "fulfilled"
                                                  ELSE "rejected"
                 /\ promiseVal' = IF step = "return" THEN results
                                                     ELSE CancelError
  /\ calledAborted' = signal
  /\ UNCHANGED <<signal, tval, settleOrder, results, attempt, lastError,
                 timer>>
  /\ UNCHANGED hookVars

\* spawn.race(tasks) with tasks.length = n
CallRace ==
  /\ comb = "none"
  /\ \E n \in 0..MaxTasks :
       /\ comb' = "race"
       /\ nTasks' = n
       /\ IF RaceSlot(signal) = "start"
            THEN /\ tstate' = [i \in TaskIds |->
                                 IF i <= n THEN "running" ELSE "idle"]
                 /\ startOrder' = [i \in 1..n |-> i]
                 /\ promise' = "pending"
                 /\ promiseVal' = NULL
            ELSE /\ UNCHANGED <<tstate, startOrder>>
                 /\ promise' = IF n = 0 THEN "pending" ELSE "rejected"
                 /\ promiseVal' = IF n = 0 THEN NULL ELSE CancelError
  /\ calledAborted' = signal
  /\ UNCHANGED <<signal, tval, settleOrder, results, attempt, lastError,
                 timer>>
  /\ UNCHANGED hookVars

\* spawn.retry(fn, retries, delayMs) with retries = n
CallRetry ==
  /\ comb = "none"
  /\ \E n \in 0..MaxTasks :
       /\ comb' = "retry"
       /\ nTasks' = n
       /\ IF RetryStep(0, n, signal) = "start"
            THEN /\ promise' = "pending"
                 /\ promiseVal' = NULL
                 /\ attempt' = 0
                 /\ tstate' = [tstate EXCEPT ![1] = "running"]
                 /\ startOrder' = <<1>>
            ELSE RetryLoop(0, n, lastError, tstate)
  /\ calledAborted' = signal
  /\ UNCHANGED <<signal, tval, settleOrder, results, lastError, timer>>
  /\ UNCHANGED hookVars

\* spawn.timeout(fn, ms): fn() is called, then pTimeout arms its timer.
CallTimeout ==
  /\ comb = "none"
  /\ comb' = "timeout"
  /\ nTasks' = 1
  /\ tstate' = [tstate EXCEPT ![1] = "running"]
  /\ startOrder' = <<1>>
  /\ timer' = "armed"
  /\ promise' = "pending"
  /\ promiseVal' = NULL
  /\ calledAborted' = signal
  /\ UNCHANGED <<signal, tval, settleOrder, results, attempt, lastError>>
  /\ UNCHANGED hookVars

\* abortController.abort() by the runner that owns the signal.
Fire ==
  /\ ~signal
  /\ signal' = TRUE
  /\ UNCHANGED <<comb, nTasks, tstate, tval, startOrder, settleOrder, results,
                 attempt, lastError, timer, promise, promiseVal,
                 calledAborted>>
  /\ UNCHANGED hookVars

\* Promise.all after task i of parallel settled with o.
ParallelResume(i, o, st, vals, order) ==
  /\ tstate' = st
  /\ IF promise # "pending"
       THEN UNCHANGED <<promise, promiseVal>>
       ELSE IF o.kind = "err"
         THEN promise' = "rejected" /\ promiseVal' = o.val
         ELSE IF \A j \in 1..nTasks : st[j] = "ok"
           THEN /\ promise' = "fulfilled"
                /\ promiseVal' = PromiseAll(nTasks, vals, order)
           ELSE UNCHANGED <<promise, promiseVal>>
  /\ UNCHANGED <<startOrder, results, attempt, lastError, timer>>

\* sequence after `await task()` of task i settled with o.
SequenceResume(i, o, st) ==
  /\ IF o.kind = "err"
       THEN /\ tstate' = st
            /\ promise' = "rejected"
            /\ promiseVal' = o.val
            /\ UNCHANGED <<results, startOrder>>
       ELSE LET res2 == ResultsPush(results, o.val)
                step == SequenceStep(i, nTasks, signal)
            IN
            /\ results' = res2
            /\ IF step = "start"
                 THEN /\ tstate' = [st EXCEPT ![i + 1] = "running"]
                      /\ startOrder' = Append(startOrder, i + 1)
                      /\ UNCHANGED <<promise, promiseVal>>
                 ELSE /\ tstate' = st
                      /\ startOrder' = startOrder
                      /\ promise' = IF step = "return" THEN "fulfilled"
                                                       ELSE "rejected"
                      /\ promiseVal' = IF step = "return" THEN res2
                                                          ELSE CancelError
  /\ UNCHANGED <<attempt, lastError, timer>>

\* Promise.race after task i settled with o.
RaceResume(i, o, st) ==
  /\ tstate' = st
  /\ IF promise = "pending"
       THEN /\ promise' = IF o.kind = "ok" THEN "fulfilled" ELSE "rejected"
            /\ promiseVal' = o.val
       ELSE UNCHANGED <<promise, promiseVal>>
  /\ UNCHANGED <<startOrder, results, attempt, lastError, timer>>

\* retry after `await fn()` of attempt i - 1 settled with o.
RetryResume(i, o, st) ==
  /\ IF o.kind = "ok"
       THEN /\ tstate' = st
            /\ promise' = "fulfilled"
            /\ promiseVal' = o.val
            /\ UNCHANGED <<startOrder, attempt, lastError, timer>>
       ELSE LET le == RetryLastError(lastError, o.val) IN
            /\ lastError' = le
            /\ IF NeedsDelay(attempt, nTasks)
                 THEN /\ timer' = "armed"
                      /\ tstate' = st
                      /\ UNCHANGED <<startOrder, attempt, promise, promiseVal>>
                 ELSE /\ timer' = timer
                      /\ RetryLoop(attempt + 1, nTasks, le, st)
  /\ UNCHANGED results

\* pTimeout after the task settled with o.
TimeoutResume(i, o, st) ==
  /\ tstate' = st
  /\ IF promise = "pending"
       THEN /\ promise' = IF o.kind = "ok" THEN "fulfilled" ELSE "rejected"
            /\ promiseVal' = o.val
            /\ timer' = ClearTimeout(timer)
       ELSE UNCHANGED <<promise, promiseVal, timer>>
  /\ UNCHANGED <<startOrder, results, attempt, lastError>>

\* Task i fulfils or rejects and the helper that awaits it resumes.
TaskSettle(i) ==
  /\ tstate[i] = "running"
  /\ \E o \in Outcomes :
       LET st == [tstate EXCEPT ![i] = o.kind]
           vals == [tval EXCEPT ![i] = o.val]
           order == Append(settleOrder, i)
       IN
       /\ tval' = vals
       /\ settleOrder' = order
       /\ CASE comb = "parallel" -> ParallelResume(i, o, st, vals, order)
            [] comb = "sequence" -> SequenceResume(i, o, st)
            [] comb = "race" -> RaceResume(i, o, st)
            [] comb = "retry" -> RetryResume(i, o, st)
            [] comb = "timeout" -> TimeoutResume(i, o, st)
  /\ UNCHANGED <<comb, signal, nTasks, calledAborted>>
  /\ UNCHANGED hookVars

\* The timer of delay(delayMs) in retry, or of pTimeout, fires.
TimerFires ==
  /\ timer = "armed"
  /\ timer' = "fired"
  /\ IF comb = "retry"
       THEN RetryLoop(attempt + 1, nTasks, lastError, tstate)
       ELSE /\ IF promise = "pending"
                 THEN promise' = "rejected" /\ promiseVal' = TimeoutError
                 ELSE UNCHANGED <<promise, promiseVal>>
            /\ UNCHANGED <<tstate, startOrder, attempt>>
  /\ UNCHANGED <<comb, signal, nTasks, tval, settleOrder, results, lastError,
                 calledAborted>>
  /\ UNCHANGED hookVars

SpawnNext ==
  \/ CallParallel
  \/ CallSequence
  \/ CallRace
  \/ CallRetry
  \/ CallTimeout
  \/ Fire
  \/ \E i \in TaskIds : TaskSettle(i)
  \/ TimerFires

SpawnSpec == Init /\ [][SpawnNext]_vars

SpawnTypeOK ==
  /\ comb \in {"none", "parallel", "sequence", "race", "retry", "timeout"}
  /\ signal \in BOOLEAN
  /\ nTasks \in 0..MaxTasks
  /\ \A i \in TaskIds : tstate[i] \in {"idle", "running", "ok", "err"}
  /\ timer \in {"none", "armed", "fired", "cleared"}
  /\ promise \in {"none", "pending", "fulfilled", "rejected"}
  /\ attempt \in 0..(MaxTasks + 1)

----------------------------------------------------------------------------
\* Steps of one helper call the properties below speak of.

\* The function of task i is called in this step.
TaskStarts(i) == tstate[i] = "idle" /\ tstate'[i] = "running"

\* Task i settles in this step.
TaskSettles(i) == tstate[i] = "running" /\ tstate'[i] # "running"

\* The helper is called in this step.
Called == comb = "none" /\ comb' # "none"

\* The helper's promise has settled.
Settled(p) == p \in {"fulfilled", "rejected"}

\* C12: sequence calls task i+1 only when every task before it has settled,
\* calls the tasks in input order, and when all tasks have fulfilled its
\* promise fulfils with their values in input order.
C12_SequenceOrder ==
  [][comb' = "sequence"
       => /\ \A i \in TaskIds :
               TaskStarts(i)
                 => \A j \in 1..(i - 1) : tstate'[j] \in {"ok", "err"}
          /\ startOrder' = [k \in 1..Len(startOrder') |-> k]
          /\ (\A k \in 1..nTasks' : tstate'[k] = "ok")
               => /\ promise' = "fulfilled"
                  /\ promiseVal' = [k \in 1..nTasks' |-> tval'[k]]]_vars

\* A sequence of at least two tasks that fulfilled with different values.
C12_Witness ==
  /\ comb = "sequence"
  /\ nTasks >= 2
  /\ promise = "fulfilled"
  /\ tval[1] # tval[2]
  /\ startOrder = [k \in 1..nTasks |-> k]

\* C13: when all tasks of parallel have fulfilled, in whatever order, its
\* promise has fulfilled with a list as long as the input whose i-th
\* element is the value of the i-th task.
C13_ParallelOrder ==
  (comb = "parallel" /\ \A k \in 1..nTasks : tstate[k] = "ok")
    => /\ promise = "fulfilled"
       /\ Len(promiseVal) = nTasks
       /\ \A k \in 1..nTasks : promiseVal[k] = tval[k]

\* Two or more tasks with different values, the first of which was not the
\* first to fulfil.
C13_Witness ==
  /\ comb = "parallel"
  /\ nTasks >= 2
  /\ promise = "fulfilled"
  /\ settleOrder[1] # 1
  /\ tval[1] # tval[2]

\* C14 (as claimed): parallel or sequence called with the signal already
\* aborted rejects with the cancellation error and calls no task function,
\* for a task list of any length.
C14_AbortedCallFails ==
  (comb \in {"parallel", "sequence"} /\ calledAborted)
    => /\ startOrder = <<>>
       /\ promise = "rejected"
       /\ promiseVal = CancelError

\* C14 (amended): parallel or sequence called with the signal already
\* aborted calls no task function; it rejects with the cancellation error
\* when the task list is not empty and fulfils with the empty list when it
\* is empty.
C14_AbortedCallFailsNonEmpty ==
  (comb \in {"parallel", "sequence"} /\ calledAborted)
    => /\ startOrder = <<>>
       /\ nTasks >= 1 => (promise = "rejected" /\ promiseVal = CancelError)
       /\ nTasks = 0 => (promise = "fulfilled" /\ promiseVal = <<>>)

\* parallel was called with a list of tasks and an aborted signal.
C14_Witness ==
  /\ comb = "parallel"
  /\ calledAborted
  /\ nTasks >= 2
  /\ promise = "rejected"

\* C15: retry with retries >= 1 and a signal that is never aborted calls fn
\* at most `retries` times; when its promise fulfils it is with the value of
\* the attempt called last, the only one that fulfilled; when the first
\* `retries` attempts have all rejected it rejects with the error of the
\* last of them and no further attempt is called.
C15_RetryBounded ==
  (comb = "retry" /\ ~signal /\ nTasks >= 1)
    => LET k == Len(startOrder) IN
       /\ k <= nTasks
       /\ startOrder = [j \in 1..k |-> j]
       /\ promise = "fulfilled"
            => /\ tstate[k] = "ok"
               /\ promiseVal = tval[k]
               /\ \A j \in 1..(k - 1) : tstate[j] = "err"
       /\ (\A j \in 1..nTasks : tstate[j] = "err")
            => /\ promise = "rejected"
               /\ promiseVal = tval[nTasks]
       /\ promise = "rejected" => \A j \in 1..nTasks : tstate[j] = "err"

\* retry has used up two or more attempts, the last of which rejected with
\* another error than the first.
C15_Witness ==
  /\ comb = "retry"
  /\ ~signal
  /\ nTasks >= 2
  /\ promise = "rejected"
  /\ tval[1] # tval[nTasks]
  /\ promiseVal = tval[nTasks]

\* C16: timeout rejects with the timeout error when its timer fires while
\* the task is unsettled; settles with the task's outcome, clearing the
\* timer, when the task settles first; once settled its promise does not
\* change, and no timer is armed once it has settled.
C16_TimeoutRace ==
  [][comb' = "timeout"
       => /\ (timer = "armed" /\ timer' = "fired" /\ tstate[1] = "running")
               => (promise' = "rejected" /\ promiseVal' = TimeoutError)
          /\ (TaskSettles(1) /\ promise = "pending")
               => /\ promise' = IF tstate'[1] = "ok" THEN "fulfilled"
                                                    ELSE "rejected"
                  /\ promiseVal' = tval'[1]
                  /\ timer' = "cleared"
          /\ Settled(promise)
               => (promise' = promise /\ promiseVal' = promiseVal)
          /\ Settled(promise') => timer' # "armed"]_vars

\* The timer fired first and the task fulfilled afterwards.
C16_Witness ==
  /\ comb = "timeout"
  /\ timer = "fired"
  /\ tstate[1] = "ok"
  /\ promise = "rejected"
  /\ promiseVal = TimeoutError

\* C17: sequence calls a task only while the signal is not aborted and
\* every task before it has fulfilled.  When task i rejects, the promise
\* rejects with that error; when task i fulfils, is not the last one and
\* the signal is aborted, the promise rejects with the cancellation error;
\* in both cases, and ever after, no further task is called.
C17_SequenceFailFast ==
  [][comb' = "sequence"
       => /\ \A i \in TaskIds :
               TaskStarts(i)
                 => (~signal /\ \A j \in 1..(i - 1) : tstate'[j] = "ok")
          /\ \A i \in TaskIds :
               TaskSettles(i)
                 => /\ tstate'[i] = "err"
                         => /\ promise' = "rejected"
                            /\ promiseVal' = tval'[i]
                            /\ startOrder' = startOrder
                    /\ (tstate'[i] = "ok" /\ signal /\ i < nTasks)
                         => /\ promise' = "rejected"
                            /\ promiseVal' = CancelError
                            /\ startOrder' = startOrder
          /\ Settled(promise) => startOrder' = startOrder]_vars

\* The signal was aborted while task 1 was running; task 1 fulfilled and
\* task 2 was never called.
C17_Witness ==
  /\ comb = "sequence"
  /\ ~calledAborted
  /\ nTasks >= 2
  /\ tstate[1] = "ok"
  /\ tstate[2] = "idle"
  /\ promise = "rejected"
  /\ promiseVal = CancelError

\* C18: retry calls fn only while the signal is not aborted.  When the
\* signal is aborted at the point an attempt would begin (at the call, or
\* when the delay after a failed attempt is over), fn is not called, the
\* promise rejects with the cancellation error, and fn is never called
\* again.
C18_RetryChecksSignal ==
  [][comb' = "retry"
       => /\ \A i \in TaskIds : TaskStarts(i) => ~signal
          /\ (Called /\ signal /\ nTasks' >= 1)
               => /\ startOrder' = <<>>
                  /\ promise' = "rejected"
                  /\ promiseVal' = CancelError
          /\ (timer = "armed" /\ timer' = "fired" /\ signal)
               => /\ startOrder' = startOrder
                  /\ promise' = "rejected"
                  /\ promiseVal' = CancelError
          /\ Settled(promise) => startOrder' = startOrder]_vars

\* An attempt rejected with another error, the signal was aborted before
\* the next attempt, and retry rejected with the cancellation error.
C18_Witness ==
  /\ comb = "retry"
  /\ ~calledAborted
  /\ lastError = "boom"
  /\ Len(startOrder) < nTasks
  /\ timer = "fired"
  /\ promise = "rejected"
  /\ promiseVal = CancelError

\* C19: race calls every task of its list whether or not the signal is
\* aborted, settles as the first task to settle does, and does not change
\* when the other tasks settle.
C19_RaceIgnoresSignal ==
  [][comb' = "race"
       => /\ Called
               => /\ startOrder' = [k \in 1..nTasks' |-> k]
                  /\ \A k \in 1..nTasks' : tstate'[k] = "running"
          /\ \A i \in TaskIds :
               (TaskSettles(i) /\ promise = "pending")
                 => /\ promise' = IF tstate'[i] = "ok" THEN "fulfilled"
                                                      ELSE "rejected"
                    /\ promiseVal' = tval'[i]
          /\ Settled(promise)
               => (promise' = promise /\ promiseVal' = promiseVal)]_vars

\* race was called with an aborted signal, fulfilled with the first task to
\* settle, and another task rejected afterwards.
C19_Witness ==
  /\ comb = "race"
  /\ calledAborted
  /\ nTasks >= 2
  /\ promise = "fulfilled"
  /\ promiseVal = tval[settleOrder[1]]
  /\ \E i \in 1..nTasks : tstate[i] = "err"

\* C21 (as claimed): a helper call that has not settled is waiting for
\* something that will happen: a task it has started and that has not
\* settled, or a timer it has armed.  Every step that settles the promise
\* is the settlement of such a task or the firing of such a timer, so a
\* pending call with neither never settles.
C21_PendingCallHasWork ==
  promise = "pending"
    => (timer = "armed" \/ \E i \in TaskIds : tstate[i] = "running")

====
